---- MODULE Spec2Model ----
(***************************************************************************)
(* Product Marketer AI Assistant (src/2.py): a Streamlit script that is    *)
(* re-executed top to bottom on every user interaction of one browser      *)
(* session.  The model follows one session: the environment credential,    *)
(* the widget values, st.session_state, the widgets rendered by the last   *)
(* script run, and the position of the running script around its one       *)
(* blocking completion call.                                                *)
(*                                                                         *)
(* Text returned by the completion service is a sequence of Unicode scalar *)
(* values (code points); form strings are TLA+ strings.                    *)
(***************************************************************************)
EXTENDS Integers, Sequences, FiniteSets, TLC

VARIABLES
    api_key,        \* os.getenv("GROQ_API_KEY"): Absent, "" or a key
    form,           \* current values of the six input widgets
    session_state,  \* st.session_state: a dict, keys appear when first stored
    clicked,        \* the widget whose click triggered the current script run
    pc,             \* "idle" | "gen_call" | "tail" | "regen_call"
    halted,         \* the last script run ended in st.stop()
    shown,          \* messages rendered by the current script run
    regen_offered,  \* the Regenerate button is on the page
    dl_offered,     \* the Download button is on the page
    dl_data,        \* data= of the rendered download button (bytes)
    dl_filename,    \* file_name= of the rendered download button
    call_args,      \* <<args>> of the last generate_content call, <<>> if none
    prompt,         \* the prompt built by the last generate_content call
    inflight,       \* completion requests sent and not yet answered
    run_requests,   \* completion requests sent by the current script run
    network_called, \* some completion request has been sent
    outcome,        \* result of the current run's completion call
    returned,       \* text returned by the last successful completion call
    submitted,      \* <<brief>> submitted by the most recent Generate, or <<>>
    result_brief    \* <<brief>> whose completion is the stored result, or <<>>

vars == <<api_key, form, session_state, clicked, pc, halted, shown,
          regen_offered, dl_offered, dl_data, dl_filename, call_args, prompt,
          inflight, run_requests, network_called, outcome, returned,
          submitted, result_brief>>

-----------------------------------------------------------------------------
(* Bounds and value sets *)

\* largest variant count handed to the prompt builder
MaxN == 3

\* os.getenv returns None when the variable is not set
Absent == "<None>"

ApiKeys == {Absent, "", "gsk_key"}

ToneOptions == <<"Professional", "Friendly", "Luxurious", "Adventurous",
                 "Playful", "Informative", "Persuasive", "Funny/Humor">>

LengthOptions == <<"Short (1 paragraph)", "Medium (2 paragraphs)",
                   "Long (3 paragraphs)">>

\* the widgets' initial values
DefaultForm ==
    [product_name       |-> "Luxury Handcrafted Leather Wallet",
     product_category   |-> "Accessories",
     key_features       |-> "- Premium full-grain leather\n- Hand-stitched for durability\n- Slim design, holds 8 cards and cash\n- RFID blocking technology\n- Available in classic black and brown",
     target_audience    |-> "Discerning professionals, minimalist enthusiasts",
     tone_of_voice      |-> ToneOptions[3],
     description_length |-> LengthOptions[2]]

\* values the user may put into each widget
FieldValues ==
    [product_name       |-> {"", DefaultForm.product_name, "Test Mug"},
     product_category   |-> {DefaultForm.product_category},
     key_features       |-> {"", DefaultForm.key_features},
     target_audience    |-> {DefaultForm.target_audience},
     tone_of_voice      |-> {ToneOptions[3]},
     description_length |-> {LengthOptions[2], LengthOptions[1]}]

Fields == DOMAIN DefaultForm

\* texts the completion service may return: empty, ASCII, and one holding
\* 2-, 3- and 4-byte code points
Completions == {<<>>, <<72, 105>>, <<233, 8364, 128640>>}

-----------------------------------------------------------------------------
(* generate_content: the prompt builder *)

paragraph_map ==
    ("Short (1 paragraph)" :> "1 paragraph")
    @@ ("Medium (2 paragraphs)" :> "2 paragraphs")
    @@ ("Long (3 paragraphs)" :> "3 paragraphs")

\* a lookup that falls back to the shortest length
actual_description_length_first(description_length) ==
    IF description_length \in DOMAIN paragraph_map
    THEN paragraph_map[description_length]
    ELSE "1 paragraph"

\* paragraph_map.get(description_length, "2 paragraphs")
actual_description_length(description_length) ==
    IF description_length \in DOMAIN paragraph_map
    THEN paragraph_map[description_length]
    ELSE "2 paragraphs"

\* the f-string of generate_content, one element per line of the literal;
\* key_features is interpolated as it is, embedded newlines included
build_prompt(product_name, product_category, key_features, target_audience, tone_of_voice, description_length, num_descriptions) ==
    LET len == actual_description_length(description_length) IN
    << "",
       "    You are an expert product marketer and e-commerce copywriter. Your task is to create engaging, unique, and SEO-friendly product descriptions",
       "    and a list of relevant hashtags for social media.",
       "",
       "    Here are the product details:",
       "    - **Product Name:** " \o product_name,
       "    - **Product Category:** " \o product_category,
       "    - **Key Features:**",
       "    " \o key_features,
       "    - **Target Audience:** " \o target_audience,
       "    - **Tone of Voice:** " \o tone_of_voice,
       "    - **Desired Description Length:** " \o len,
       "",
       "    Please generate " \o ToString(num_descriptions) \o " distinct product description(s) that highlight the product's benefits,",
       "    address the target audience's needs, and resonate with the specified tone.",
       "    Each description should be approximately " \o len \o " long.",
       "    ",
       "    After each description, generate a comma-separated list of at least 10 relevant hashtags for social media,",
       "    starting with '#'.",
       "",
       "    Format your output clearly as follows:",
       "",
       "    ---",
       "    **Description 1:**",
       "    [Generated Description 1 here]",
       "    ",
       "    **Hashtags 1:** #[hashtag1], #[hashtag2], #[hashtag3], ...",
       "    ---",
       "",
       "    **Description 2:**",
       "    [Generated Description 2 here]",
       "    ",
       "    **Hashtags 2:** #[hashtag1], #[hashtag2], #[hashtag3], ...",
       "    ---",
       "    " >>

\* the arguments of one generate_content call made by the page: the six
\* widget values, num_descriptions left at its default
CallArgs(f) ==
    [product_name       |-> f.product_name,
     product_category   |-> f.product_category,
     key_features       |-> f.key_features,
     target_audience    |-> f.target_audience,
     tone_of_voice      |-> f.tone_of_voice,
     description_length |-> f.description_length,
     num_descriptions   |-> 2]

PromptOf(a) ==
    build_prompt(a.product_name, a.product_category, a.key_features,
                 a.target_audience, a.tone_of_voice, a.description_length,
                 a.num_descriptions)

\* the six brief fields of a call's arguments
BriefOf(a) == [k \in Fields |-> a[k]]

-----------------------------------------------------------------------------
(* str.encode("utf-8") on a text of Unicode scalar values *)

encode_char(c) ==
    IF c < 128 THEN <<c>>
    ELSE IF c < 2048 THEN <<192 + (c \div 64), 128 + (c % 64)>>
    ELSE IF c < 65536 THEN
        <<224 + (c \div 4096), 128 + ((c \div 64) % 64), 128 + (c % 64)>>
    ELSE
        <<240 + (c \div 262144), 128 + ((c \div 4096) % 64),
          128 + ((c \div 64) % 64), 128 + (c % 64)>>

RECURSIVE Concat(_)
Concat(ss) == IF ss = <<>> THEN <<>> ELSE Head(ss) \o Concat(Tail(ss))

\* one byte per character, the low eight bits of its code point
encode_latin1(s) == [i \in 1..Len(s) |-> s[i] % 256]

encode_utf8(s) == Concat([i \in 1..Len(s) |-> encode_char(s[i])])

-----------------------------------------------------------------------------
(* The page: conditions and session-state updates of the script *)

\* a test for None alone, which lets an empty string through
KeyIsNone(k) == k = Absent

\* `not groq_api_key`
KeyMissing(k) == k = Absent \/ k = ""

\* `not product_name or not key_features`
InputsMissing(f) == f.product_name = "" \/ f.key_features = ""

\* a Regenerate handler that also runs in the run of a Generate click
GenerateOrRegenerateClicked(c) == c \in {"generate", "regenerate"}

\* st.button returns True only in the run its click triggered
generate_button(c) == c = "generate"

regenerate_button(c) == c = "regenerate"

\* 'generated_output' in st.session_state and st.session_state['generated_output']
HasResult(ss) ==
    "generated_output" \in DOMAIN ss /\ ss["generated_output"] # <<>>

\* st.session_state[k] = v
Store(ss, k, v) == (k :> v) @@ ss

StoreGenerated(ss, generated_output, product_name) ==
    Store(Store(ss, "generated_output", generated_output),
          "product_name_for_download", product_name)

StoreRegenerated(ss, generated_output) ==
    Store(ss, "generated_output", generated_output)

\* an except branch that also resets the stored result
ResetOnException(ss) == Store(ss, "generated_output", <<>>)

\* the except branches render messages and leave st.session_state alone
OnException(ss) == ss

\* the arguments the Regenerate handler passes: the widget values of the
\* current run
RegenerateArgs(f) == CallArgs(f)

\* f"{st.session_state.get('product_name_for_download', 'product')}_descriptions_hashtags.txt"
filename(ss) ==
    (IF "product_name_for_download" \in DOMAIN ss
     THEN ss["product_name_for_download"] ELSE "product")
    \o "_descriptions_hashtags.txt"

\* data=st.session_state['generated_output'].encode("utf-8")
DownloadData(ss) == encode_utf8(ss["generated_output"])

-----------------------------------------------------------------------------
(* One script run, cut at its blocking completion call *)

EmptyDict == [k \in {} |-> <<>>]

\* generate_content up to client.chat.completions.create: the prompt is
\* built and the request leaves; n requests were sent earlier in this run
SendRequest(a, n) ==
    /\ call_args' = <<a>>
    /\ prompt' = PromptOf(a)
    /\ inflight' = inflight + 1
    /\ run_requests' = n + 1
    /\ network_called' = TRUE

NoRequest(n) ==
    /\ run_requests' = n
    /\ UNCHANGED <<call_args, prompt, inflight, network_called>>

NoDownloadButton ==
    /\ dl_offered' = FALSE
    /\ dl_data' = <<>>
    /\ dl_filename' = ""

\* st.download_button(data=..., file_name=filename, ...)
DownloadButton(ss) ==
    /\ dl_offered' = TRUE
    /\ dl_data' = DownloadData(ss)
    /\ dl_filename' = filename(ss)

\* st.error(...); st.stop(): nothing below is rendered, and the values of
\* widgets that a run does not render are dropped by the framework
Halt(msg) ==
    /\ halted' = TRUE
    /\ shown' = {msg}
    /\ form' = DefaultForm
    /\ pc' = "idle"
    /\ regen_offered' = FALSE
    /\ NoDownloadButton
    /\ NoRequest(0)
    /\ UNCHANGED submitted

\* the script from its first line to the end of the Generate handler, or to
\* the completion call the handler makes; c is the clicked widget, f the
\* widget values of this run
ScriptRun(c, f) ==
    /\ pc = "idle"
    /\ clicked' = c
    /\ outcome' = "none"
    /\ UNCHANGED <<api_key, session_state, returned, result_brief>>
    /\ IF KeyMissing(api_key)
       THEN Halt("config_error")
       ELSE \E client_ok \in BOOLEAN :
              IF ~client_ok
              THEN Halt("client_error")
              ELSE /\ halted' = FALSE
                   /\ form' = f
                   /\ regen_offered' = FALSE
                   /\ NoDownloadButton
                   /\ IF generate_button(c) /\ ~InputsMissing(f)
                      THEN /\ SendRequest(CallArgs(f), 0)
                           /\ submitted' = <<f>>
                           /\ shown' = {}
                           /\ pc' = "gen_call"
                      ELSE /\ NoRequest(0)
                           /\ UNCHANGED submitted
                           /\ shown' = IF generate_button(c)
                                       THEN {"empty_warning"} ELSE {}
                           /\ pc' = "tail"

\* the completion call of the Generate handler returns text
GenerateReturns ==
    /\ pc = "gen_call"
    /\ \E text \in Completions :
         /\ session_state' = StoreGenerated(session_state, text, form.product_name)
         /\ returned' = text
    /\ result_brief' = <<BriefOf(call_args[1])>>
    /\ shown' = shown \cup {"generated"}
    /\ outcome' = "ok"
    /\ inflight' = inflight - 1
    /\ pc' = "tail"
    /\ UNCHANGED <<api_key, form, clicked, halted, regen_offered, dl_offered,
                   dl_data, dl_filename, call_args, prompt, run_requests,
                   network_called, submitted>>

\* the completion call of the Generate handler raises
GenerateRaises ==
    /\ pc = "gen_call"
    /\ session_state' = OnException(session_state)
    /\ shown' = shown \cup {"api_error"}
    /\ outcome' = "error"
    /\ inflight' = inflight - 1
    /\ pc' = "tail"
    /\ UNCHANGED <<api_key, form, clicked, halted, regen_offered, dl_offered,
                   dl_data, dl_filename, call_args, prompt, run_requests,
                   network_called, returned, submitted, result_brief>>

\* the Regenerate and Download block, to its end or to the completion call
\* of the Regenerate handler
ButtonsBlock ==
    /\ pc = "tail"
    /\ IF HasResult(session_state)
       THEN /\ regen_offered' = TRUE
            /\ IF regenerate_button(clicked)
               THEN /\ SendRequest(RegenerateArgs(form), run_requests)
                    /\ pc' = "regen_call"
                    /\ UNCHANGED <<dl_offered, dl_data, dl_filename>>
               ELSE /\ NoRequest(run_requests)
                    /\ DownloadButton(session_state)
                    /\ pc' = "idle"
       ELSE /\ NoRequest(run_requests)
            /\ pc' = "idle"
            /\ UNCHANGED <<regen_offered, dl_offered, dl_data, dl_filename>>
    /\ UNCHANGED <<api_key, form, session_state, clicked, halted, shown,
                   outcome, returned, submitted, result_brief>>

\* the completion call of the Regenerate handler returns text; the download
\* button is rendered after it
RegenerateReturns ==
    /\ pc = "regen_call"
    /\ \E text \in Completions :
         /\ session_state' = StoreRegenerated(session_state, text)
         /\ returned' = text
    /\ result_brief' = <<BriefOf(call_args[1])>>
    /\ shown' = shown \cup {"regenerated"}
    /\ outcome' = "ok"
    /\ inflight' = inflight - 1
    /\ DownloadButton(session_state')
    /\ pc' = "idle"
    /\ UNCHANGED <<api_key, form, clicked, halted, regen_offered, call_args,
                   prompt, run_requests, network_called, submitted>>

\* the completion call of the Regenerate handler raises
RegenerateRaises ==
    /\ pc = "regen_call"
    /\ session_state' = OnException(session_state)
    /\ shown' = shown \cup {"regen_error"}
    /\ outcome' = "error"
    /\ inflight' = inflight - 1
    /\ DownloadButton(session_state')
    /\ pc' = "idle"
    /\ UNCHANGED <<api_key, form, clicked, halted, regen_offered, call_args,
                   prompt, run_requests, network_called, returned, submitted,
                   result_brief>>

-----------------------------------------------------------------------------
(* What the user can do with the rendered page *)

EditField ==
    /\ ~halted
    /\ \E k \in Fields : \E v \in FieldValues[k] :
         /\ v # form[k]
         /\ ScriptRun("none", [form EXCEPT ![k] = v])

ClickGenerate == ~halted /\ ScriptRun("generate", form)

ClickRegenerate == regen_offered /\ ScriptRun("regenerate", form)

ClickDownload == dl_offered /\ ScriptRun("download", form)

\* "Rerun" of the framework's menu: the script runs with nothing clicked
Rerun == ScriptRun("none", form)

\* the session after the first script run
Init ==
    /\ api_key \in ApiKeys
    /\ \E client_ok \in BOOLEAN :
         /\ halted = (KeyMissing(api_key) \/ ~client_ok)
         /\ shown = IF KeyMissing(api_key) THEN {"config_error"}
                    ELSE IF ~client_ok THEN {"client_error"} ELSE {}
    /\ form = DefaultForm
    /\ session_state = EmptyDict
    /\ clicked = "none"
    /\ pc = "idle"
    /\ regen_offered = FALSE
    /\ dl_offered = FALSE
    /\ dl_data = <<>>
    /\ dl_filename = ""
    /\ call_args = <<>>
    /\ prompt = <<>>
    /\ inflight = 0
    /\ run_requests = 0
    /\ network_called = FALSE
    /\ outcome = "none"
    /\ returned = <<>>
    /\ submitted = <<>>
    /\ result_brief = <<>>

Next ==
    \/ EditField
    \/ ClickGenerate
    \/ ClickRegenerate
    \/ ClickDownload
    \/ Rerun
    \/ GenerateReturns
    \/ GenerateRaises
    \/ ButtonsBlock
    \/ RegenerateReturns
    \/ RegenerateRaises

Spec == Init /\ [][Next]_vars

-----------------------------------------------------------------------------
(* The prompt builder alone, on inputs beyond those the page can produce *)

PromptInputs ==
    [product_name       : FieldValues.product_name,
     product_category   : {DefaultForm.product_category, "Kitchen"},
     key_features       : FieldValues.key_features \cup {"- Keeps drinks hot"},
     target_audience    : {DefaultForm.target_audience, "Office workers"},
     tone_of_voice      : {ToneOptions[3], ToneOptions[2]},
     description_length : {LengthOptions[i] : i \in 1..Len(LengthOptions)}
                          \cup {"", "short", "Extra long (4 paragraphs)"},
     num_descriptions   : 0..MaxN]

InitPrompt ==
    /\ call_args \in {<<a>> : a \in PromptInputs}
    /\ prompt = <<>>
    /\ api_key = "gsk_key"
    /\ halted = FALSE
    /\ shown = {}
    /\ form = DefaultForm
    /\ session_state = EmptyDict
    /\ clicked = "none"
    /\ pc = "idle"
    /\ regen_offered = FALSE
    /\ dl_offered = FALSE
    /\ dl_data = <<>>
    /\ dl_filename = ""
    /\ inflight = 0
    /\ run_requests = 0
    /\ network_called = FALSE
    /\ outcome = "none"
    /\ returned = <<>>
    /\ submitted = <<>>
    /\ result_brief = <<>>

\* generate_content builds its prompt from the arguments it was given
BuildPrompt ==
    /\ prompt = <<>>
    /\ prompt' = PromptOf(call_args[1])
    /\ UNCHANGED <<api_key, form, session_state, clicked, pc, halted, shown,
                   regen_offered, dl_offered, dl_data, dl_filename, call_args,
                   inflight, run_requests, network_called, outcome, returned,
                   submitted, result_brief>>

NextPrompt == BuildPrompt

SpecPrompt == InitPrompt /\ [][NextPrompt]_vars

-----------------------------------------------------------------------------
(* Properties *)

\* the last-result slot: <<text>> when stored, <<>> when absent
Slot(ss) ==
    IF "generated_output" \in DOMAIN ss THEN <<ss["generated_output"]>> ELSE <<>>

ErrorMessages == {"api_error", "regen_error"}

\* C1: a run whose completion call raises shows an error message and leaves
\* the last-result slot as it was when the run began (absent stays absent):
\* no step that starts a run, and no step of a run whose call has raised,
\* changes the slot.
C1_ErrorKeepsLastResult ==
    /\ [](outcome = "error" => shown \cap ErrorMessages # {})
    /\ [][(pc = "idle" \/ outcome' = "error")
            => Slot(session_state') = Slot(session_state)]_vars

C1_Witness ==
    /\ pc = "idle"
    /\ outcome = "error"
    /\ clicked = "regenerate"
    /\ Slot(session_state) = <<returned>>
    /\ returned # <<>>

\* the explicit output-format section: the lines after "Format your output"
FormatSection(pr) ==
    LET start == CHOOSE i \in 1..Len(pr) :
                   pr[i] = "    Format your output clearly as follows:"
    IN  SubSeq(pr, start + 1, Len(pr))

DescriptionLabel(k) == "    **Description " \o ToString(k) \o ":**"

HashtagsLabel(k) ==
    "    **Hashtags " \o ToString(k) \o ":** #[hashtag1], #[hashtag2], #[hashtag3], ..."

\* numbers k whose label is a line of the section (label numbers up to
\* MaxN + 2 are looked for)
DescriptionsRequested(sec) ==
    {k \in 0..(MaxN + 2) : \E i \in 1..Len(sec) : sec[i] = DescriptionLabel(k)}

HashtagsRequested(sec) ==
    {k \in 0..(MaxN + 2) : \E i \in 1..Len(sec) : sec[i] = HashtagsLabel(k)}

LinePos(sec, line) == CHOOSE i \in 1..Len(sec) : sec[i] = line

\* C2: for every variant count N given to the prompt builder, the format
\* section of the built prompt asks for exactly the blocks Description 1..N,
\* each followed by Hashtags 1..N, and no others.
C2_FormatRequestsNPairs ==
    prompt # <<>> =>
        LET N   == call_args[1].num_descriptions
            sec == FormatSection(prompt)
        IN  /\ DescriptionsRequested(sec) = 1..N
            /\ HashtagsRequested(sec) = 1..N
            /\ \A k \in 1..N :
                 LinePos(sec, DescriptionLabel(k)) < LinePos(sec, HashtagsLabel(k))

\* C3: the brief a Regenerate hands to the prompt builder is the brief the
\* most recent Generate submitted, whatever the form holds by then.
C3_RegenerateReusesSubmitted ==
    pc = "regen_call" =>
        /\ submitted # <<>>
        /\ BriefOf(call_args[1]) = submitted[1]

\* C4: with the credential absent or empty the configuration error is shown
\* and the run has stopped; no request was ever sent, no input widget,
\* Generate, Regenerate or Download can be used, and the slot is unwritten.
C4_NoCredentialHalts ==
    (api_key = Absent \/ api_key = "") =>
        /\ halted
        /\ "config_error" \in shown
        /\ ~network_called
        /\ inflight = 0
        /\ call_args = <<>>
        /\ ~regen_offered
        /\ ~dl_offered
        /\ ~ENABLED ClickGenerate
        /\ ~ENABLED ClickRegenerate
        /\ ~ENABLED ClickDownload
        /\ ~ENABLED EditField
        /\ session_state = EmptyDict

C4_Witness ==
    /\ api_key = ""
    /\ halted
    /\ "config_error" \in shown
    /\ pc = "idle"

\* strict UTF-8 decoding of a byte sequence; <<-1>> where it is malformed
\* (stray or missing continuation byte, overlong form, surrogate, > 10FFFF)
RECURSIVE utf8_decode(_)
utf8_decode(b) ==
    IF b = <<>> THEN <<>>
    ELSE
      LET n == IF b[1] < 128 THEN 1
               ELSE IF b[1] >= 194 /\ b[1] < 224 THEN 2
               ELSE IF b[1] >= 224 /\ b[1] < 240 THEN 3
               ELSE IF b[1] >= 240 /\ b[1] < 245 THEN 4
               ELSE 0
          wellformed ==
               /\ n > 0
               /\ Len(b) >= n
               /\ \A i \in 2..n : b[i] >= 128 /\ b[i] < 192
      IN  IF ~wellformed THEN <<-1>>
          ELSE
            LET cp == IF n = 1 THEN b[1]
                      ELSE IF n = 2 THEN (b[1] - 192) * 64 + (b[2] - 128)
                      ELSE IF n = 3 THEN (b[1] - 224) * 4096 + (b[2] - 128) * 64
                                         + (b[3] - 128)
                      ELSE (b[1] - 240) * 262144 + (b[2] - 128) * 4096
                           + (b[3] - 128) * 64 + (b[4] - 128)
                shortest == /\ n = 3 => cp >= 2048
                            /\ n = 4 => (cp >= 65536 /\ cp <= 1114111)
                            /\ ~(cp >= 55296 /\ cp <= 57343)
            IN  IF ~shortest THEN <<-1>>
                ELSE <<cp>> \o utf8_decode(SubSeq(b, n + 1, Len(b)))

\* C5: whenever Download is offered its bytes are the UTF-8 form of the
\* stored result (they decode, strictly, to exactly that text), which is
\* the text of the most recent successful completion, also after a later
\* failed Generate or Regenerate.
C5_DownloadBytesAreUtf8OfResult ==
    dl_offered =>
        /\ "generated_output" \in DOMAIN session_state
        /\ \A i \in 1..Len(dl_data) : dl_data[i] \in 0..255
        /\ utf8_decode(dl_data) = session_state["generated_output"]
        /\ session_state["generated_output"] = returned

C5_Witness ==
    /\ dl_offered
    /\ outcome = "error"
    /\ Len(dl_data) = 9
    /\ Len(session_state["generated_output"]) = 3

\* the paragraph-count phrase the spec gives for a length selection
PhraseFor(selection) ==
    CASE selection = LengthOptions[1] -> "1 paragraph"
      [] selection = LengthOptions[2] -> "2 paragraphs"
      [] selection = LengthOptions[3] -> "3 paragraphs"
      [] OTHER -> "2 paragraphs"

\* C6: the built prompt carries, in both places that name the length, the
\* phrase of the selection: short -> 1 paragraph, medium -> 2 paragraphs,
\* long -> 3 paragraphs, anything else -> 2 paragraphs.
C6_LengthPhrase ==
    prompt # <<>> =>
        LET phrase == PhraseFor(call_args[1].description_length) IN
        /\ phrase \in {"1 paragraph", "2 paragraphs", "3 paragraphs"}
        /\ prompt[12] = "    - **Desired Description Length:** " \o phrase
        /\ prompt[16] = "    Each description should be approximately "
                        \o phrase \o " long."

C6_Witness ==
    /\ prompt # <<>>
    /\ call_args[1].description_length = "short"
    /\ prompt[12] = "    - **Desired Description Length:** 2 paragraphs"

\* C7: at most one request is in flight, a run sends at most one request,
\* a request is sent only when none is in flight and none was sent or
\* answered earlier in the same run (so a failure is not retried and one
\* click never makes both handlers call).
C7_OneRequestPerAction ==
    /\ [](/\ inflight \in {0, 1}
          /\ run_requests \in {0, 1}
          /\ (inflight = 1) <=> (pc \in {"gen_call", "regen_call"})
          /\ (pc \in {"gen_call", "regen_call"}) => outcome = "none")
    /\ [][inflight' > inflight =>
            /\ inflight = 0
            /\ run_requests' = 1
            /\ outcome' = "none"
            /\ clicked' \in {"generate", "regenerate"}]_vars

C7_Witness ==
    /\ pc = "idle"
    /\ outcome = "error"
    /\ run_requests = 1
    /\ inflight = 0
    /\ clicked = "generate"

\* C8: no request is ever sent, by Generate or by Regenerate, with an empty
\* product name or an empty feature list; a run that finds one of them
\* empty warns and sends nothing.
C8_NoRequestWithEmptyInputs ==
    /\ call_args # <<>> =>
         /\ call_args[1].product_name # ""
         /\ call_args[1].key_features # ""
    /\ "empty_warning" \in shown => run_requests = 0

\* C9: the file name offered for download is the product name of the brief
\* that produced the stored result, followed by the fixed suffix.
C9_FileNameFromResultBrief ==
    dl_offered =>
        /\ result_brief # <<>>
        /\ dl_filename = result_brief[1].product_name \o "_descriptions_hashtags.txt"

\* C10: the slot holds exactly the text of the last completion call that
\* returned (absent before the first), so no other action writes it, and
\* Regenerate and Download are on the page only while it is non-empty.
C10_SlotIsLastReturnedText ==
    /\ Slot(session_state) = (IF result_brief = <<>> THEN <<>> ELSE <<returned>>)
    /\ outcome = "ok" => Slot(session_state) = <<returned>>
    /\ (regen_offered \/ dl_offered) => HasResult(session_state)

====
